---- MODULE Spec2Model ----
(***************************************************************************)
(* Model of sora_video_generator.py: text_to_video_sora2 and               *)
(* image_to_video_sora2.  Each run is one invocation of one of the two     *)
(* functions.  The remote service (create / retrieve / download_content /  *)
(* write_to_file) and the wall clock are the environment: every remote     *)
(* call may return any status or raise, and time passes between steps.     *)
(***************************************************************************)
EXTENDS Integers, Sequences, FiniteSets, TLC

\* ---- bounds ----
\* a single invocation is observed while the clock runs over 0..MaxClock
MaxClock == 31
\* two concurrent invocations are observed while it runs over 0..PairClock
PairClock == 12

\* ---- program constants ----
VIDEO_DIR == "videos"
POLL_INTERVAL == 10

\* the invocations: one of them alone, or the two side by side
Runs == {1, 2}
Kinds == {"text", "image"}
Sizes == {"1280x720", "720x1280"}
Durations == {4, 8, 12}

\* the three values the polling loop stops on
Terminal == {"completed", "failed", "cancelled"}
\* what the service may report while the job is not finished
NonTerminal == {"queued", "in_progress"}
Statuses == NonTerminal \cup Terminal

VARIABLES
    active,     \* the invocations the caller makes in this behaviour
    horizon,    \* the last clock reading of this behaviour
    now,        \* wall clock, whole seconds
    pc,         \* position of each run in its function
    kind,       \* which of the two functions the run is
    startT,     \* start = time.time()
    status,     \* video.status as last observed by the run
    wake,       \* earliest time the pending time.sleep(10) returns
    handle,     \* the reference image file object of image_to_video_sora2
    file,       \* what the run has put on disk at its output path
    result,     \* the value returned by the run
    stampT,     \* the clock reading the returned file name was formed from
    creates,    \* client.videos.create calls issued
    retrieves,  \* client.videos.retrieve calls issued
    sleeps,     \* time.sleep calls issued
    downloads,  \* client.videos.download_content calls issued
    nonTerm,    \* non-terminal statuses the service has returned to the run
    raised      \* the call that raised in this run, "none" if none did

vars == <<active, horizon, now, pc, kind, startT, status, wake, handle, file,
          result, stampT, creates, retrieves, sleeps, downloads, nonTerm, raised>>

\* ---- pure helpers ----

\* variant: the format without the seconds field, '%d%b%Y_%H%M'
StampNoSeconds(t) == <<t \div 86400, (t \div 3600) % 24, (t \div 60) % 60, 0>>

\* strftime('%d%b%Y_%H%M%S') of the clock reading t: day, hour, minute, second
Stamp(t) == <<t \div 86400, (t \div 3600) % 24, (t \div 60) % 60, t % 60>>

\* os.path.join(VIDEO_DIR, f"sora2_video_{...}.mp4")
VideoFile(t) == <<VIDEO_DIR, "sora2_video_", Stamp(t), ".mp4">>

Unset == [tag |-> "unset", path |-> <<>>]
RetFalse == [tag |-> "False", path |-> <<>>]
RetNone == [tag |-> "None", path |-> <<>>]
RetPath(p) == [tag |-> "path", path |-> p]

\* variant: "cancelled" missing from the list of the loop
WhileTestNoCancelled(s) == s \notin {"completed", "failed"}

\* variant: the loop only waits while the job is queued
WhileTestQueuedOnly(s) == s = "queued"

\* the loop condition: video.status not in ["completed", "failed", "cancelled"]
WhileTest(s) == s \notin {"completed", "failed", "cancelled"}

\* variant: the chain without its last elif
FinalBranchNoCancelled(s) ==
    IF s = "completed" THEN "download"
    ELSE IF s = "failed" THEN "False"
    ELSE "None"

\* variant: the download is attempted for every status but "cancelled"
FinalBranchFailedDownloads(s) ==
    IF s \in {"completed", "failed"} THEN "download"
    ELSE IF s = "cancelled" THEN "False"
    ELSE "None"

\* the if / elif / elif chain after the loop: what the run does on status s
FinalBranch(s) ==
    IF s = "completed" THEN "download"
    ELSE IF s = "failed" THEN "False"
    ELSE IF s = "cancelled" THEN "False"
    ELSE "None"

\* variant: the file write placed after the try block
InTryWithoutWrite(what) == what \in {"open", "create", "retrieve", "download"}

\* variant: the image opened before the try block
InTryWithoutOpen(what) == what \in {"create", "retrieve", "download", "write"}

\* the calls made between try: and except Exception:
InTry(what) == what \in {"open", "create", "retrieve", "download", "write"}

\* the scripted service stops reporting non-terminal statuses early enough
\* for the sleep that follows to end within the clock's range
MayReport(s) == s \in Terminal \/ now + POLL_INTERVAL <= horizon

\* variant: a plain open() whose handle is never closed
WithExitLeak(h) == h

\* leaving the with-block releases the image handle, on return and on raise
WithExit(h) == IF h = "open" THEN "closed" ELSE h

\* ---- state after construction ----
Started ==
    /\ now = 0
    /\ pc = [r \in Runs |-> "idle"]
    /\ kind = [r \in Runs |-> "text"]
    /\ startT = [r \in Runs |-> -1]
    /\ status = [r \in Runs |-> "none"]
    /\ wake = [r \in Runs |-> 0]
    /\ handle = [r \in Runs |-> "unopened"]
    /\ file = [r \in Runs |-> "none"]
    /\ result = [r \in Runs |-> Unset]
    /\ stampT = [r \in Runs |-> -1]
    /\ creates = [r \in Runs |-> 0]
    /\ retrieves = [r \in Runs |-> 0]
    /\ sleeps = [r \in Runs |-> 0]
    /\ downloads = [r \in Runs |-> 0]
    /\ nonTerm = [r \in Runs |-> 0]
    /\ raised = [r \in Runs |-> "none"]

\* one invocation
Init ==
    /\ active = {1}
    /\ horizon = MaxClock
    /\ Started

\* two invocations that may overlap in time
PairInit ==
    /\ active = Runs
    /\ horizon = PairClock
    /\ Started

\* ---- environment: time passes ----
Tick ==
    /\ now < horizon
    /\ now' = now + 1
    /\ UNCHANGED <<active, horizon, pc, kind, startT, status, wake, handle,
                   file, result, stampT,
                   creates, retrieves, sleeps, downloads, nonTerm, raised>>

\* variant: a loop that sleeps and fetches before it tests (do-while)
ObserveDoWhile(r, s) ==
    /\ status' = [status EXCEPT ![r] = s]
    /\ nonTerm' = [nonTerm EXCEPT ![r] = IF s \in Terminal THEN @ ELSE @ + 1]
    /\ IF WhileTest(s) \/ retrieves[r] = 0
       THEN /\ pc' = [pc EXCEPT ![r] = "sleep"]
            /\ sleeps' = [sleeps EXCEPT ![r] = @ + 1]
            /\ wake' = [wake EXCEPT ![r] = now + POLL_INTERVAL]
       ELSE /\ pc' = [pc EXCEPT ![r] = "final"]
            /\ UNCHANGED <<sleeps, wake>>

\* a status s has just been stored in video: the while test, and if it holds
\* the time.sleep(10) call is entered
Observe(r, s) ==
    /\ status' = [status EXCEPT ![r] = s]
    /\ nonTerm' = [nonTerm EXCEPT ![r] = IF s \in Terminal THEN @ ELSE @ + 1]
    /\ IF WhileTest(s)
       THEN /\ pc' = [pc EXCEPT ![r] = "sleep"]
            /\ sleeps' = [sleeps EXCEPT ![r] = @ + 1]
            /\ wake' = [wake EXCEPT ![r] = now + POLL_INTERVAL]
       ELSE /\ pc' = [pc EXCEPT ![r] = "final"]
            /\ UNCHANGED <<sleeps, wake>>

\* variant: a failed download is attempted again
RaiseRetryDownload(r, what) ==
    /\ raised' = [raised EXCEPT ![r] = what]
    /\ pc' = [pc EXCEPT ![r] = IF what = "download" THEN "download"
                               ELSE "except"]

\* a call raised: control moves to the except clause when the call is made
\* inside the try block, and leaves the function otherwise
Raise(r, what) ==
    /\ raised' = [raised EXCEPT ![r] = what]
    /\ pc' = [pc EXCEPT ![r] = IF InTry(what) THEN "except" ELSE "propagated"]

\* ---- the two functions ----

\* the call itself: start = time.time(), then the try block is entered
Start(r) ==
    /\ r \in active
    /\ pc[r] = "idle"
    /\ \E k \in Kinds :
          /\ kind' = [kind EXCEPT ![r] = k]
          /\ pc' = [pc EXCEPT ![r] = IF k = "image" THEN "open" ELSE "create"]
    /\ startT' = [startT EXCEPT ![r] = now]
    /\ UNCHANGED <<active, horizon, now, status, wake, handle, file, result,
                   stampT, creates,
                   retrieves, sleeps, downloads, nonTerm, raised>>

\* with open(image_file, "rb") as image_file
OpenImage(r) ==
    /\ pc[r] = "open"
    /\ \/ /\ handle' = [handle EXCEPT ![r] = "open"]
          /\ pc' = [pc EXCEPT ![r] = "create"]
          /\ UNCHANGED raised
       \/ /\ Raise(r, "open")
          /\ UNCHANGED handle
    /\ UNCHANGED <<active, horizon, now, kind, startT, status, wake, file,
                   result, stampT,
                   creates, retrieves, sleeps, downloads, nonTerm>>

\* video = client.videos.create(...)
Create(r) ==
    /\ pc[r] = "create"
    /\ creates' = [creates EXCEPT ![r] = @ + 1]
    /\ handle' = [handle EXCEPT ![r] = WithExit(@)]
    /\ \E size \in Sizes, seconds \in Durations :
          \/ \E s \in Statuses :
                /\ MayReport(s)
                /\ Observe(r, s)
                /\ UNCHANGED raised
          \/ /\ Raise(r, "create")
             /\ UNCHANGED <<status, nonTerm, sleeps, wake>>
    /\ UNCHANGED <<active, horizon, now, kind, startT, file, result, stampT,
                   retrieves,
                   downloads>>

\* time.sleep(10) returns
Wake(r) ==
    /\ pc[r] = "sleep"
    /\ now >= wake[r]
    /\ pc' = [pc EXCEPT ![r] = "retrieve"]
    /\ UNCHANGED <<active, horizon, now, kind, startT, status, wake, handle,
                   file, result,
                   stampT, creates, retrieves, sleeps, downloads, nonTerm,
                   raised>>

\* video = client.videos.retrieve(video.id)
Retrieve(r) ==
    /\ pc[r] = "retrieve"
    /\ retrieves' = [retrieves EXCEPT ![r] = @ + 1]
    /\ \/ \E s \in Statuses :
             /\ MayReport(s)
             /\ Observe(r, s)
             /\ UNCHANGED raised
       \/ /\ Raise(r, "retrieve")
          /\ UNCHANGED <<status, nonTerm, sleeps, wake>>
    /\ UNCHANGED <<active, horizon, now, kind, startT, handle, file, result,
                   stampT, creates,
                   downloads>>

\* the if / elif / elif chain on the final status
Final(r) ==
    /\ pc[r] = "final"
    /\ LET b == FinalBranch(status[r]) IN
          IF b = "download"
          THEN /\ pc' = [pc EXCEPT ![r] = "download"]
               /\ UNCHANGED result
          ELSE /\ pc' = [pc EXCEPT ![r] = "done"]
               /\ result' = [result EXCEPT ![r] =
                                IF b = "False" THEN RetFalse ELSE RetNone]
    /\ UNCHANGED <<active, horizon, now, kind, startT, status, wake, handle,
                   file, stampT,
                   creates, retrieves, sleeps, downloads, nonTerm, raised>>

\* content = client.videos.download_content(video.id, variant="video")
Download(r) ==
    /\ pc[r] = "download"
    /\ downloads' = [downloads EXCEPT ![r] = @ + 1]
    /\ \/ /\ pc' = [pc EXCEPT ![r] = "write"]
          /\ UNCHANGED raised
       \/ Raise(r, "download")
    /\ UNCHANGED <<active, horizon, now, kind, startT, status, wake, handle,
                   file, result,
                   stampT, creates, retrieves, sleeps, nonTerm>>

\* the file name is formed from datetime.now(), content.write_to_file(...)
\* writes it, and the name is returned; a write that raises may leave nothing
\* or a partial file behind
WriteFile(r) ==
    /\ pc[r] = "write"
    /\ \/ /\ file' = [file EXCEPT ![r] = "complete"]
          /\ stampT' = [stampT EXCEPT ![r] = now]
          /\ result' = [result EXCEPT ![r] = RetPath(VideoFile(now))]
          /\ pc' = [pc EXCEPT ![r] = "done"]
          /\ UNCHANGED raised
       \/ /\ \E f \in {"none", "partial"} : file' = [file EXCEPT ![r] = f]
          /\ Raise(r, "write")
          /\ UNCHANGED <<result, stampT>>
    /\ UNCHANGED <<active, horizon, now, kind, startT, status, wake, handle,
                   creates,
                   retrieves, sleeps, downloads, nonTerm>>

\* except Exception as e: ... return False
Except(r) ==
    /\ pc[r] = "except"
    /\ result' = [result EXCEPT ![r] = RetFalse]
    /\ pc' = [pc EXCEPT ![r] = "done"]
    /\ UNCHANGED <<active, horizon, now, kind, startT, status, wake, handle,
                   file, stampT,
                   creates, retrieves, sleeps, downloads, nonTerm, raised>>

\* every step of a run after the call itself
Step(r) ==
    \/ OpenImage(r)
    \/ Create(r)
    \/ Wake(r)
    \/ Retrieve(r)
    \/ Final(r)
    \/ Download(r)
    \/ WriteFile(r)
    \/ Except(r)

Next ==
    \/ Tick
    \/ \E r \in Runs : Start(r)
    \/ \E r \in Runs : Step(r)

Spec == Init /\ [][Next]_vars

PairSpec == PairInit /\ [][Next]_vars

\* the scheduling of the code: one thread per run, every call returns or
\* raises, and time passes
FairSpec == Spec /\ WF_vars(Tick) /\ \A r \in Runs : WF_vars(Step(r))

\* ---- properties ----

Returned(r) == pc[r] = "done"
IsPath(v) == v.tag = "path"
Abs(n) == IF n < 0 THEN -n ELSE n

\* C1: a run never lets a failure escape to its caller, and a run that has
\* returned has returned either a path VIDEO_DIR/...mp4 or False, nothing else
C1_PathOrFalse ==
    \A r \in Runs :
        /\ pc[r] # "propagated"
        /\ Returned(r) =>
              \/ result[r] = RetFalse
              \/ /\ IsPath(result[r])
                 /\ result[r].path[1] = VIDEO_DIR
                 /\ result[r].path[4] = ".mp4"
        /\ ~Returned(r) => result[r] = Unset

C1_Witness ==
    \E r \in Runs : Returned(r) /\ raised[r] = "write" /\ result[r] = RetFalse

\* C2: when the download is issued, the service has answered with a status
\* (the create response and each retrieve) exactly once more than it has
\* answered with a non-terminal status: N non-terminal answers, N + 1 status
\* fetches, N of them retrieve calls
C2_FetchesBeforeDownload ==
    \A r \in Runs :
        (pc[r] = "download" \/ downloads[r] >= 1) =>
            /\ creates[r] + retrieves[r] = nonTerm[r] + 1
            /\ status[r] = "completed"

C2_Witness ==
    \E r \in Runs : downloads[r] = 1 /\ nonTerm[r] = 3 /\ raised[r] = "none"

\* C3: a run that has observed failed or cancelled issues no download, writes
\* no file, and returns False
C3_FailedNoDownload ==
    \A r \in Runs :
        status[r] \in {"failed", "cancelled"} =>
            /\ downloads[r] = 0
            /\ file[r] = "none"
            /\ pc[r] \notin {"download", "write"}
            /\ Returned(r) => result[r] = RetFalse

C3_Witness ==
    \E r \in Runs :
        Returned(r) /\ status[r] = "cancelled" /\ retrieves[r] >= 1
            /\ raised[r] = "none"

\* C4: after create (or the opening of the image) raised, the run issues no
\* retrieve and no download, writes no file, and returns False
C4_CreateRaises ==
    \A r \in Runs :
        raised[r] \in {"create", "open"} =>
            /\ pc[r] \in {"except", "done"}
            /\ retrieves[r] = 0
            /\ downloads[r] = 0
            /\ file[r] = "none"
            /\ Returned(r) => result[r] = RetFalse

C4_Witness ==
    \E r \in Runs : Returned(r) /\ raised[r] = "open" /\ creates[r] = 0

\* C5: anything is on disk only after completed was observed and the download
\* was issued; a returned path names a completely written file; a run whose
\* download or write raised does not return a path
C5_FileOnlyAfterCompleted ==
    \A r \in Runs :
        /\ file[r] # "none" => status[r] = "completed" /\ downloads[r] = 1
        /\ pc[r] = "write" => status[r] = "completed"
        /\ IsPath(result[r]) => file[r] = "complete"
        /\ raised[r] \in {"download", "write"} => ~IsPath(result[r])

C5_Witness ==
    \E r \in Runs : Returned(r) /\ file[r] = "partial" /\ result[r] = RetFalse

\* C6 as stated: two successful runs started more than one second apart
\* return different paths
C6_StartedApartDistinct ==
    \A r1, r2 \in Runs :
        (/\ r1 # r2
         /\ IsPath(result[r1])
         /\ IsPath(result[r2])
         /\ Abs(startT[r1] - startT[r2]) > 1)
        => result[r1].path # result[r2].path

\* C6 as amended: two successful runs whose file names were formed at
\* different clock seconds return different paths
C6_StampedApartDistinct ==
    \A r1, r2 \in Runs :
        (/\ r1 # r2
         /\ IsPath(result[r1])
         /\ IsPath(result[r2])
         /\ stampT[r1] # stampT[r2])
        => result[r1].path # result[r2].path

C6_Witness ==
    \E r1, r2 \in Runs :
        /\ IsPath(result[r1])
        /\ IsPath(result[r2])
        /\ startT[r2] - startT[r1] > 1
        /\ stampT[r1] # stampT[r2]
        /\ retrieves[r1] = 1

\* C7: the image handle is open only while the create call is pending: it is
\* closed once create has returned or raised, hence before any sleep or
\* fetch and in every state in which the function has returned
C7_HandleReleased ==
    \A r \in Runs :
        /\ handle[r] = "open" => pc[r] = "create" /\ creates[r] = 0
        /\ (kind[r] = "image" /\ creates[r] >= 1) => handle[r] = "closed"

C7_Witness ==
    \E r \in Runs :
        /\ kind[r] = "image"
        /\ raised[r] = "create"
        /\ Returned(r)
        /\ handle[r] = "closed"

\* C8: once the observed status is terminal no retrieve and no sleep follows,
\* and a run whose create response was terminal has issued none at all
C8_NoRepoll ==
    /\ [](\A r \in Runs :
             (status[r] \in Terminal /\ nonTerm[r] = 0) =>
                 retrieves[r] = 0 /\ sleeps[r] = 0)
    /\ [][\A r \in Runs :
             status[r] \in Terminal =>
                 /\ retrieves'[r] = retrieves[r]
                 /\ sleeps'[r] = sleeps[r]
                 /\ status'[r] = status[r]]_vars

C8_Witness ==
    \E r \in Runs :
        Returned(r) /\ status[r] = "failed" /\ retrieves[r] = 2

\* C9: create and download are issued at most once per run, and after a call
\* raised the run issues no further call, writes nothing more, and can only
\* return False
C9_NoRetry ==
    /\ [](\A r \in Runs :
             /\ creates[r] <= 1
             /\ downloads[r] <= 1
             /\ raised[r] # "none" =>
                   /\ pc[r] \in {"except", "done"}
                   /\ Returned(r) => result[r] = RetFalse)
    /\ [][\A r \in Runs :
             raised[r] # "none" =>
                 /\ creates'[r] = creates[r]
                 /\ retrieves'[r] = retrieves[r]
                 /\ downloads'[r] = downloads[r]
                 /\ sleeps'[r] = sleeps[r]
                 /\ file'[r] = file[r]
                 /\ raised'[r] = raised[r]]_vars

C9_Witness ==
    \E r \in Runs :
        Returned(r) /\ raised[r] = "download" /\ retrieves[r] >= 1

\* C10: a run that was called returns; it is past the loop without a failure
\* only on a terminal status; exactly one sleep, of POLL_INTERVAL from the
\* fetch before it, lies between two status fetches
C10_PollsUntilTerminal ==
    /\ \A r \in Runs : (pc[r] # "idle") ~> Returned(r)
    /\ [](\A r \in Runs :
             /\ (pc[r] \in {"final", "download", "write"}
                   \/ (Returned(r) /\ raised[r] = "none"))
                => status[r] \in Terminal
             /\ sleeps[r] = retrieves[r]
                   + (IF pc[r] \in {"sleep", "retrieve"} THEN 1 ELSE 0))
    /\ [][\A r \in Runs :
             /\ sleeps'[r] # sleeps[r] =>
                   /\ sleeps'[r] = sleeps[r] + 1
                   /\ wake'[r] = now + POLL_INTERVAL
             /\ retrieves'[r] # retrieves[r] => now >= wake[r]]_vars

C10_Witness ==
    \E r \in Runs :
        Returned(r) /\ retrieves[r] = 2 /\ sleeps[r] = 2 /\ raised[r] = "none"

====
